---- MODULE Spec2Model ----
(***************************************************************************)
(* Model of CustomZoomTool (src/team.py): the OAuth token cache kept by    *)
(* get_access_token and the write into the wrapped ZoomTool's private      *)
(* token field.  Each caller executes get_access_token one read or write   *)
(* of the object at a time; the clock is the wall clock of time.time(),    *)
(* which may advance or be set back.  The serial specification Spec runs   *)
(* one call at a time (the program as written), SpecConc lets the calls    *)
(* of two callers interleave.                                              *)
(***************************************************************************)
EXTENDS Integers, FiniteSets, Sequences, TLC

\* ---------------------------------------------------------------- bounds
MaxTime == 1
MaxCalls == 3

\* ------------------------------------------------------------- constants
Margin == 60

Callers == {"c1", "c2"}

\* Python None (distinct from every string the provider can send)
None == "<None>"
\* token strings the token endpoint may return, the empty string included
Tokens == {"", "A", "B"}
\* expires_in values the token endpoint may declare (seconds)
Lifetimes == {10, 60, 61}
\* final HTTP statuses of the POST: success, a redirect class status that
\* requests does not follow, a client error, a server error
Statuses == {200, 300, 401, 500}

\* JSON objects the endpoint may send: each key may be present or absent
Bodies ==
    {[access_token |-> a, expires_in |-> e] : a \in Tokens, e \in Lifetimes}
        \cup {[access_token |-> a] : a \in Tokens}
        \cup {[expires_in |-> e] : e \in Lifetimes}
        \cup {<<>>}

\* the value of the local `token_info` while no body has been parsed
NoBody == <<>>
Responses == {[status |-> s, body |-> b] : s \in Statuses, b \in Bodies}

\* ------------------------------------------------------- pure operations
\* Python truthiness of None / str
Truthy(v) == v # None /\ v # ""

\* str(v) for None / str
Str(v) == IF v = None THEN "None" ELSE v

\* the variant that treats a token as fresh only one second early
UnexpiredEarly(t, exp) == t < exp - 1
\* the variant that still serves the token at the expiry instant
UnexpiredInclusive(t, exp) == t <= exp
\* line 41, right operand: time.time() < self.token_expires_at
Unexpired(t, exp) == t < exp

\* line 51: response.raise_for_status() raises HTTPError for 4xx and 5xx
RaisesForStatus(s) == 400 <= s /\ s < 600

\* the variant that forgets the safety margin
ExpiresAtNoMargin(t, expires_in) == t + expires_in
\* line 56: time.time() + expires_in - 60
ExpiresAt(t, expires_in) == t + expires_in - Margin

\* the variant whose assignment lands on the subclass's own mangled name
set_parent_token_mangled(old, token) == old
\* lines 64-67: _set_parent_token, as the new value of _ZoomTool__access_token
set_parent_token(old, token) == IF Truthy(token) THEN token ELSE old

\* ------------------------------------------------------------------ state
VARIABLES
    now,               \* the wall clock that time.time() reads
    access_token,      \* self.access_token
    token_expires_at,  \* self.token_expires_at
    parent_token,      \* self._ZoomTool__access_token
    origin,            \* history: who wrote the cached pair, and from what
    pc,                \* per caller: the point of get_access_token it is at
    token_info,        \* per caller: the local `token_info`
    frame,             \* per caller: values read but not yet used
    call,              \* per caller: record of the call in progress
    entry,             \* history: the object as the running serial call found it
    ncalls             \* calls started so far

shared == <<access_token, token_expires_at, parent_token, origin>>
vars == <<now, access_token, token_expires_at, parent_token, origin, pc,
          token_info, frame, call, entry, ncalls>>

\* origin of the pair before any exchange: written by the constructor
InitOrigin == [tok |-> "init", paired |-> TRUE, t0 |-> 0, life |-> 0]

\* clock: the value time.time() returned; expires_in: the local of line 55;
\* token: the argument of _set_parent_token
NoFrame == [clock |-> 0, expires_in |-> 0, token |-> None]

NoCall == [state |-> "none", raced |-> FALSE, posts |-> 0, status |-> 0,
           got |-> None, logged |-> FALSE, result |-> None]

NoEntry == [t |-> 0, tok |-> None, exp |-> 0, parent |-> None,
            origin |-> InitOrigin]

\* callers that have stored their token (line 54) but not yet its expiry
MidUpdate == {u \in Callers : pc[u] \in {"compute_expiry", "write_expiry"}}

\* lines 30-33: __init__ (ZoomTool.__init__ leaves its private token None)
Init ==
    /\ now = 0
    /\ access_token = None
    /\ token_expires_at = 0
    /\ parent_token = None
    /\ origin = InitOrigin
    /\ pc = [t \in Callers |-> "idle"]
    /\ token_info = [t \in Callers |-> NoBody]
    /\ frame = [t \in Callers |-> NoFrame]
    /\ call = [t \in Callers |-> NoCall]
    /\ entry = NoEntry
    /\ ncalls = 0

\* the call of `t` ends here: a returned value or a propagated exception
Finish(t, how, value, logs) ==
    /\ pc' = [pc EXCEPT ![t] = "done"]
    /\ call' = [call EXCEPT ![t].state = how, ![t].result = value,
                            ![t].logged = logs]
    /\ token_info' = [token_info EXCEPT ![t] = NoBody]
    /\ frame' = [frame EXCEPT ![t] = NoFrame]

\* the wall clock advances
Tick ==
    /\ now < MaxTime
    /\ now' = now + 1
    /\ UNCHANGED <<shared, pc, token_info, frame, call, entry, ncalls>>

\* the wall clock is set back (time.time() is not monotonic)
ClockStepBack ==
    /\ now > 0
    /\ now' = now - 1
    /\ UNCHANGED <<shared, pc, token_info, frame, call, entry, ncalls>>

\* the variant that takes a lock: no call starts while another is running
CallLocked(t) ==
    /\ pc[t] = "idle"
    /\ \A u \in Callers : pc[u] = "idle"
    /\ ncalls < MaxCalls
    /\ ncalls' = ncalls + 1
    /\ pc' = [pc EXCEPT ![t] =
                IF Truthy(access_token) THEN "read_clock" ELSE "post"]
    /\ call' = [call EXCEPT ![t] = [NoCall EXCEPT !.state = "running"]]
    /\ UNCHANGED <<now, shared, token_info, frame>>
\* lines 35-41: entry of get_access_token and the left operand of the
\* check, self.access_token; when it is falsy `and` skips the rest
Call(t) ==
    /\ pc[t] = "idle"
    /\ ncalls < MaxCalls
    /\ ncalls' = ncalls + 1
    /\ pc' = [pc EXCEPT ![t] =
                IF Truthy(access_token) THEN "read_clock" ELSE "post"]
    /\ call' = [call EXCEPT ![t] = [NoCall EXCEPT !.state = "running"]]
    /\ UNCHANGED <<now, shared, token_info, frame>>

\* line 41: the call of time.time()
ReadClock(t) ==
    /\ pc[t] = "read_clock"
    /\ frame' = [frame EXCEPT ![t].clock = now]
    /\ pc' = [pc EXCEPT ![t] = "check_expiry"]
    /\ UNCHANGED <<now, shared, token_info, call, ncalls>>

\* line 41: the read of self.token_expires_at and the comparison
CheckExpiry(t) ==
    /\ pc[t] = "check_expiry"
    /\ pc' = [pc EXCEPT ![t] =
                IF Unexpired(frame[t].clock, token_expires_at)
                THEN "return_cached" ELSE "post"]
    /\ call' = [call EXCEPT ![t].raced =
                    /\ Unexpired(frame[t].clock, token_expires_at)
                    /\ MidUpdate \ {t} # {}]
    /\ frame' = [frame EXCEPT ![t] = NoFrame]
    /\ UNCHANGED <<now, shared, token_info, entry, ncalls>>

\* line 42: return str(self.access_token)
ReturnCached(t) ==
    /\ pc[t] = "return_cached"
    /\ Finish(t, "returned", Str(access_token), FALSE)
    /\ UNCHANGED <<now, shared, entry, ncalls>>

\* the outcome of lines 51-53 for a received response r
Received(t, r) ==
    IF RaisesForStatus(r.status)
    THEN /\ pc' = [pc EXCEPT ![t] = "except"]
         /\ UNCHANGED token_info
    ELSE /\ pc' = [pc EXCEPT ![t] = "store_token"]
         /\ token_info' = [token_info EXCEPT ![t] = r.body]

\* the variant that waits while another caller's exchange is under way
PostSingleFlight(t) ==
    /\ pc[t] = "post"
    /\ \A u \in Callers \ {t} :
          pc[u] \in {"idle", "read_clock", "check_expiry", "return_cached",
                     "post", "done"}
    /\ \/ /\ pc' = [pc EXCEPT ![t] = "except"]
          /\ call' = [call EXCEPT ![t].posts = @ + 1]
          /\ UNCHANGED token_info
       \/ \E r \in Responses :
             /\ Received(t, r)
             /\ call' = [call EXCEPT ![t].posts = @ + 1,
                                     ![t].status = r.status]
    /\ UNCHANGED <<now, shared, frame, entry, ncalls>>
\* lines 48-53: requests.post (a transport failure raises a
\* RequestException), response.raise_for_status(), response.json()
Post(t) ==
    /\ pc[t] = "post"
    /\ \/ /\ pc' = [pc EXCEPT ![t] = "except"]
          /\ call' = [call EXCEPT ![t].posts = @ + 1]
          /\ UNCHANGED token_info
       \/ \E r \in Responses :
             /\ Received(t, r)
             /\ call' = [call EXCEPT ![t].posts = @ + 1,
                                     ![t].status = r.status]
    /\ UNCHANGED <<now, shared, frame, entry, ncalls>>

\* line 54: self.access_token = token_info["access_token"] (or KeyError)
StoreToken(t) ==
    /\ pc[t] = "store_token"
    /\ IF "access_token" \in DOMAIN token_info[t]
       THEN /\ access_token' = token_info[t].access_token
            /\ origin' = [origin EXCEPT !.tok = t, !.paired = FALSE]
            /\ pc' = [pc EXCEPT ![t] = "compute_expiry"]
            /\ call' = [call EXCEPT ![t].got = token_info[t].access_token]
            /\ UNCHANGED <<token_info, frame>>
       ELSE /\ Finish(t, "raised", "KeyError", FALSE)
            /\ UNCHANGED <<access_token, origin>>
    /\ UNCHANGED <<now, token_expires_at, parent_token, entry, ncalls>>

\* line 55: expires_in = token_info["expires_in"] (or KeyError), and the
\* call of time.time() on line 56
ComputeExpiry(t) ==
    /\ pc[t] = "compute_expiry"
    /\ IF "expires_in" \in DOMAIN token_info[t]
       THEN /\ frame' = [frame EXCEPT
                            ![t].clock = now,
                            ![t].expires_in = token_info[t].expires_in]
            /\ pc' = [pc EXCEPT ![t] = "write_expiry"]
            /\ token_info' = [token_info EXCEPT ![t] = NoBody]
            /\ UNCHANGED call
       ELSE Finish(t, "raised", "KeyError", FALSE)
    /\ UNCHANGED <<now, shared, entry, ncalls>>

\* line 56: the store into self.token_expires_at
WriteExpiry(t) ==
    /\ pc[t] = "write_expiry"
    /\ token_expires_at' = ExpiresAt(frame[t].clock, frame[t].expires_in)
    /\ origin' = [origin EXCEPT !.paired = (origin.tok = t),
                                !.t0 = frame[t].clock,
                                !.life = frame[t].expires_in]
    /\ frame' = [frame EXCEPT ![t] = NoFrame]
    /\ pc' = [pc EXCEPT ![t] = "eval_token"]
    /\ UNCHANGED <<now, access_token, parent_token, token_info, call, entry,
                   ncalls>>

\* line 58: the argument str(self.access_token) of _set_parent_token
EvalToken(t) ==
    /\ pc[t] = "eval_token"
    /\ frame' = [frame EXCEPT ![t].token = Str(access_token)]
    /\ pc' = [pc EXCEPT ![t] = "set_parent"]
    /\ UNCHANGED <<now, shared, token_info, call, entry, ncalls>>

\* lines 64-67: the body of _set_parent_token on its argument
SetParent(t) ==
    /\ pc[t] = "set_parent"
    /\ parent_token' = set_parent_token(parent_token, frame[t].token)
    /\ frame' = [frame EXCEPT ![t] = NoFrame]
    /\ pc' = [pc EXCEPT ![t] = "return_token"]
    /\ UNCHANGED <<now, access_token, token_expires_at, origin, token_info,
                   call, entry, ncalls>>

\* line 59: return str(self.access_token)
ReturnToken(t) ==
    /\ pc[t] = "return_token"
    /\ Finish(t, "returned", Str(access_token), FALSE)
    /\ UNCHANGED <<now, shared, entry, ncalls>>

\* lines 60-62: except RequestException: logger.error(...); return ""
Except(t) ==
    /\ pc[t] = "except"
    /\ Finish(t, "returned", "", TRUE)
    /\ UNCHANGED <<now, shared, entry, ncalls>>

\* the caller has the result (or the exception); the frame is gone
Leave(t) ==
    /\ pc[t] = "done"
    /\ pc' = [pc EXCEPT ![t] = "idle"]
    /\ call' = [call EXCEPT ![t] = NoCall]
    /\ entry' = NoEntry
    /\ UNCHANGED <<now, shared, token_info, frame, ncalls>>

Step(t) ==
    \/ CheckExpiry(t)
    \/ ReturnCached(t)
    \/ Post(t)
    \/ StoreToken(t)
    \/ ComputeExpiry(t)
    \/ WriteExpiry(t)
    \/ EvalToken(t)
    \/ SetParent(t)
    \/ ReturnToken(t)
    \/ Except(t)
    \/ Leave(t)

\* a call started while no other call is in progress (single-threaded use)
SerialCall(t) ==
    /\ \A u \in Callers : pc[u] = "idle"
    /\ Call(t)
    /\ entry' = [t |-> 0, tok |-> access_token, exp |-> token_expires_at,
                 parent |-> parent_token, origin |-> origin]

\* the clock reading of the check, kept for the running serial call
SerialReadClock(t) ==
    /\ ReadClock(t)
    /\ entry' = [entry EXCEPT !.t = now]

\* a call started whatever the other caller is doing
ConcurrentCall(t) ==
    /\ Call(t)
    /\ UNCHANGED entry

ConcurrentReadClock(t) ==
    /\ ReadClock(t)
    /\ UNCHANGED entry

\* single-threaded program: calls follow one another
Next ==
    \/ Tick
    \/ ClockStepBack
    \/ \E t \in Callers : SerialCall(t)
    \/ \E t \in Callers : SerialReadClock(t)
    \/ \E t \in Callers : Step(t)

Spec == Init /\ [][Next]_vars

\* two callers whose calls interleave at every read and write of the object
NextConc ==
    \/ Tick
    \/ ClockStepBack
    \/ \E t \in Callers : ConcurrentCall(t)
    \/ \E t \in Callers : ConcurrentReadClock(t)
    \/ \E t \in Callers : Step(t)

SpecConc == Init /\ [][NextConc]_vars

\* ----------------------------------------------------------------- claims
\* the call of t has evaluated the condition of line 41
Checked(t) == pc[t] \notin {"idle", "read_clock", "check_expiry"}

\* the condition of the fast path, on the object as the call found it and
\* the clock as the call read it
EntryValid == Truthy(entry.tok) /\ entry.t < entry.exp

\* the cache and the wrapped client hold what the call found
CacheUntouched ==
    /\ access_token = entry.tok
    /\ token_expires_at = entry.exp
    /\ parent_token = entry.parent

Is2xx(s) == 200 <= s /\ s < 300

\* C1: a call made while a non-empty token is cached and the time is
\* strictly before token_expires_at issues no token-endpoint request,
\* returns the cached token, and leaves access_token, token_expires_at and
\* the wrapped client's token as they were.
C1_FastPath ==
    \A t \in Callers :
        (Checked(t) /\ EntryValid) =>
            /\ call[t].posts = 0
            /\ CacheUntouched
            /\ pc[t] = "done" =>
                  call[t].state = "returned" /\ call[t].result = entry.tok

C1_Witness ==
    \E t \in Callers :
        /\ pc[t] = "done"
        /\ EntryValid
        /\ call[t].result = entry.tok
        /\ call[t].posts = 0

\* C2: a call made while no token is cached, or at or after the cached
\* token's token_expires_at, issues exactly one token-endpoint request,
\* whatever the outcome of the request.
C2_RefreshPostsOnce ==
    \A t \in Callers :
        (Checked(t) /\ ~EntryValid) =>
            /\ pc[t] # "return_cached"
            /\ call[t].posts = (IF pc[t] = "post" THEN 0 ELSE 1)

C2_Witness ==
    \E t \in Callers :
        /\ pc[t] = "done"
        /\ Truthy(entry.tok)
        /\ entry.t >= entry.exp
        /\ call[t].posts = 1

\* C3 as stated: a call whose token-endpoint request ends in a non-2xx
\* response returns "" and leaves access_token, token_expires_at and the
\* wrapped client's token as they were.
C3_NonOkLeavesCache ==
    \A t \in Callers :
        (pc[t] = "done" /\ call[t].posts = 1 /\ call[t].status # 0
            /\ ~Is2xx(call[t].status)) =>
            /\ call[t].state = "returned"
            /\ call[t].result = ""
            /\ CacheUntouched

\* C4: between calls, whenever a token is cached, token_expires_at is the
\* time of the exchange that stored that token plus its expires_in minus
\* 60; a call is served from the cache exactly at the times strictly
\* before that instant.
C4_ExpiryBookkeeping ==
    /\ ((\A t \in Callers : pc[t] \in {"idle", "done"})
            /\ Truthy(access_token)) =>
          /\ origin.paired
          /\ token_expires_at = origin.t0 + origin.life - 60
    /\ \A t \in Callers :
          (Checked(t) /\ Truthy(entry.tok)) =>
              /\ entry.origin.paired
              /\ (call[t].posts = 0 /\ pc[t] # "post")
                    <=> (entry.t < entry.origin.t0 + entry.origin.life - 60)

\* C5: a call whose exchange fails (transport failure or non-2xx status)
\* returns "" after logging, and no call ends in an exception.
C5_NeverRaises ==
    \A t \in Callers :
        pc[t] = "done" =>
            /\ call[t].state # "raised"
            /\ (call[t].posts = 1 /\ ~Is2xx(call[t].status)) =>
                  call[t].result = "" /\ call[t].logged

\* C6 as stated: after every successful exchange the wrapped client's
\* token is the token the exchange returned and the cache stores, for
\* every token the provider can return.
C6_ParentHoldsToken ==
    \A t \in Callers :
        (pc[t] = "done" /\ call[t].state = "returned" /\ call[t].posts = 1
            /\ ~call[t].logged) =>
            /\ access_token = call[t].got
            /\ parent_token = call[t].got

\* C6 amended: after every successful exchange that returned a non-empty
\* token string, the wrapped client's token is the token the exchange
\* returned and the cache stores.
C6_ParentHoldsNonEmptyToken ==
    \A t \in Callers :
        (pc[t] = "done" /\ call[t].state = "returned" /\ call[t].posts = 1
            /\ ~call[t].logged /\ call[t].got # "") =>
            /\ access_token = call[t].got
            /\ parent_token = call[t].got

C6_Witness ==
    \E t \in Callers :
        /\ pc[t] = "done"
        /\ call[t].state = "returned"
        /\ call[t].got = "B"
        /\ entry.parent = "A"
        /\ parent_token = "B"

\* C7: nothing makes a caller that failed the expiry check wait for an
\* exchange another caller has under way: it can always issue its own
\* request, and every caller on the refresh path has issued exactly one.
C7_NoSingleFlight ==
    \A t \in Callers :
        /\ pc[t] = "post" => ENABLED Post(t)
        /\ pc[t] \in {"store_token", "compute_expiry", "write_expiry",
                      "eval_token", "set_parent", "return_token", "except"}
              => call[t].posts = 1

\* both callers passed the check on the empty cache and each has the
\* response of its own request in hand
C7_Witness ==
    /\ \A t \in Callers : pc[t] = "store_token" /\ call[t].posts = 1
    /\ access_token = None
    /\ origin = InitOrigin

\* C8: nothing keeps a caller out of the expiry check or the cached return
\* while another caller is between storing its token (line 54) and storing
\* that token's expiry (line 56).
C8_NoMutualExclusion ==
    \A t \in Callers :
        /\ (pc[t] = "idle" /\ ncalls < MaxCalls /\ MidUpdate \ {t} # {})
              => ENABLED Call(t)
        /\ pc[t] = "read_clock" => ENABLED ConcurrentReadClock(t)
        /\ pc[t] = "check_expiry" => ENABLED CheckExpiry(t)
        /\ pc[t] = "return_cached" => ENABLED ReturnCached(t)

\* a caller took the fast path on a token whose expiry had not been
\* written yet, and returned that token
C8_Witness ==
    \E t \in Callers : \E u \in Callers \ {t} :
        /\ pc[t] = "done"
        /\ call[t].raced
        /\ call[t].posts = 0
        /\ u \in MidUpdate
        /\ origin.tok = u
        /\ ~origin.paired
        /\ origin.life > 0
        /\ call[t].result = call[u].got

\* C9 as stated: after a successful exchange whose expires_in is at most
\* 60, the stored token_expires_at is not later than the time of the
\* exchange, and the next call, whenever it is made, is not served from
\* the cache and issues a request.
C9_ShortLifetime ==
    /\ (origin.life >= 1 /\ origin.life <= 60) =>
          token_expires_at <= origin.t0
    /\ \A t \in Callers :
          (Checked(t) /\ entry.origin.life >= 1
              /\ entry.origin.life <= 60) =>
              /\ pc[t] # "return_cached"
              /\ pc[t] = "done" => call[t].posts = 1

\* the clock reading of the call's check is earlier than the reading the
\* exchange computed the expiry from
ClockWentBack == Truthy(entry.tok) /\ entry.t < entry.origin.t0

\* C9 amended: after a successful exchange whose expires_in is at most 60,
\* the stored token_expires_at is not later than the clock reading of the
\* exchange, and the next call is not served from the cache and issues a
\* request, provided its own clock reading is not earlier than the
\* exchange's.
C9_ShortLifetimeClockNotBack ==
    /\ (origin.life >= 1 /\ origin.life <= 60) =>
          token_expires_at <= origin.t0
    /\ \A t \in Callers :
          (Checked(t) /\ entry.origin.life >= 1
              /\ entry.origin.life <= 60 /\ ~ClockWentBack) =>
              /\ pc[t] # "return_cached"
              /\ pc[t] = "done" => call[t].posts = 1

C9_Witness ==
    \E t \in Callers :
        /\ pc[t] = "done"
        /\ entry.origin.life = 10
        /\ entry.origin.paired
        /\ Truthy(entry.tok)
        /\ entry.t >= entry.origin.t0
        /\ entry.exp = entry.origin.t0 - 50
        /\ call[t].posts = 1

\* C10: a call either updates access_token, token_expires_at and the
\* wrapped client's token together from one response or changes none of
\* them; so a non-empty cached token equals the wrapped client's token
\* and is paired with the expiry computed for it.
C10_AllOrNothing ==
    /\ \A t \in Callers :
          pc[t] = "done" =>
              \/ CacheUntouched
              \/ /\ call[t].posts = 1
                 /\ access_token = call[t].got
                 /\ origin.paired
                 /\ parent_token = call[t].got
    /\ ((\A t \in Callers : pc[t] \in {"idle", "done"})
            /\ Truthy(access_token)) =>
          /\ access_token = parent_token
          /\ origin.paired

====
